---------------------------- MODULE Spec2Model ----------------------------
(***************************************************************************)
(* A model of grobi's RandR core (src/cmd/grobi/randr.go):                 *)
(*   - RandrParse, parseOutputLine, parseModeLine: the line-oriented       *)
(*     parser of an `xrandr --query` report,                               *)
(*   - Outputs.Present / Outputs.Connected: the glob queries,              *)
(*   - BuildCommandOutputRow: the synthesis of xrandr calls for a rule.    *)
(*                                                                         *)
(* A Go string is a sequence of one-character strings, so that prefix      *)
(* tests, word scanning, splitting and indexing are computed as the code   *)
(* computes them.                                                          *)
(***************************************************************************)
EXTENDS Integers, Sequences, FiniteSets, TLC

VARIABLES
    \* RandrParse
    input,      \* the lines ls.Scan() has delivered so far
    line,       \* ls.Text(): the line being processed
    state,      \* StateStart / StateOutput / StateMode
    output,     \* the output under construction
    outputs,    \* the named result
    err,        \* the named result; "nil" when no error
    pc,         \* "scan", "switch", "returned", "panicked"
    \* BuildCommandOutputRow
    rule, current, mapOrder, cmds, berr, bpc,
    \* Outputs.Present / Outputs.Connected / Outputs.Equals
    os, name, qret, qpc,
    other       \* the argument of Outputs.Equals

parseVars == <<input, line, state, output, outputs, err, pc>>
buildVars == <<rule, current, mapOrder, cmds, berr, bpc>>
queryVars == <<os, name, qret, qpc, other>>
vars == <<parseVars, buildVars, queryVars>>

---------------------------------------------------------------------------
(* Bounds *)

\* the longest report: lines delivered by the scanner before end of input
MaxLines == 5

\* the most outputs in the current model handed to BuildCommandOutputRow
MaxCurrent == 3

\* the most outputs in the list Present and Connected are asked about
MaxOutputs == 3

\* the most outputs in each of the two lists Equals compares
MaxEq == 2

---------------------------------------------------------------------------
(* Strings *)

Nil == "nil"

\* unicode.IsSpace, on the characters that occur here
isSpace(c) == c \in {" ", "\t"}

\* strings.HasPrefix
HasPrefix(s, prefix) ==
    /\ Len(s) >= Len(prefix)
    /\ SubSeq(s, 1, Len(prefix)) = prefix

\* the index of the first character of s at or after i that satisfies /
\* does not satisfy isSpace; Len(s)+1 when there is none
RECURSIVE SkipSpace(_, _)
SkipSpace(s, i) ==
    IF i > Len(s) \/ ~isSpace(s[i]) THEN i ELSE SkipSpace(s, i + 1)

RECURSIVE SkipWord(_, _)
SkipWord(s, i) ==
    IF i > Len(s) \/ isSpace(s[i]) THEN i ELSE SkipWord(s, i + 1)

\* bufio.ScanWords over the whole line: the successive ws.Text() values
RECURSIVE WordsFrom(_, _)
WordsFrom(s, i) ==
    LET b == SkipSpace(s, i)
        e == SkipWord(s, b)
    IN  IF b > Len(s) THEN <<>>
        ELSE <<SubSeq(s, b, e - 1)>> \o WordsFrom(s, e)

ScanWords(s) == WordsFrom(s, 1)

\* the index of the first occurrence of character c in s at or after i, or 0
RECURSIVE IndexFrom(_, _, _)
IndexFrom(s, c, i) ==
    IF i > Len(s) THEN 0
    ELSE IF s[i] = c THEN i
    ELSE IndexFrom(s, c, i + 1)

\* strings.Split(s, c) for a one-character separator
RECURSIVE Split(_, _)
Split(s, c) ==
    LET k == IndexFrom(s, c, 1)
    IN  IF k = 0 THEN <<s>>
        ELSE <<SubSeq(s, 1, k - 1)>> \o Split(SubSeq(s, k + 1, Len(s)), c)

\* strings.SplitN(s, c, 2)
SplitN2(s, c) ==
    LET k == IndexFrom(s, c, 1)
    IN  IF k = 0 THEN <<s>>
        ELSE <<SubSeq(s, 1, k - 1), SubSeq(s, k + 1, Len(s))>>

---------------------------------------------------------------------------
(* Data model *)

\* Mode{Name, Default, Active}
Mode(n, d, a) == [Name |-> n, Default |-> d, Active |-> a]

\* Output{Name, Modes, Connected}
Output(n, ms, c) == [Name |-> n, Modes |-> ms, Connected |-> c]

\* Output{} and Mode{}
ZeroOutput == Output(<<>>, <<>>, FALSE)
ZeroMode == Mode(<<>>, FALSE, FALSE)

StateStart == 0
StateOutput == 1
StateMode == 2

\* errNotModeLine and the messages of the other errors
errNotModeLine == "not a mode line"
errNoName == "line too short, name not found"
errNoState == "line too short, state not found"
errUnknownState == "unknown state"
errNoModeName == "line too short, mode name not found"
errNoRate == "line too short, no refresh rate found"
errFirstLine == "first line should start with Screen"

sConnected == <<"c","o","n","n","e","c","t","e","d">>
sDisconnected == <<"d","i","s">> \o sConnected
sScreenSp == <<"S","c","r","e","e","n"," ">>

---------------------------------------------------------------------------
(* parseOutputLine, parseModeLine *)

\* parseOutputLine reading the third field of a connected output as well
parseOutputLine_ConnectedToo(l) ==
    LET ws == ScanWords(l)
    IN  IF Len(ws) < 1 THEN [output |-> ZeroOutput, err |-> errNoName]
        ELSE IF Len(ws) < 2 THEN [output |-> ZeroOutput, err |-> errNoState]
        ELSE IF ws[2] \notin {sConnected, sDisconnected}
             THEN [output |-> ZeroOutput, err |-> errUnknownState]
        ELSE LET con == (ws[2] = sConnected)
                 o == Output(ws[1], <<>>, con)
             IN  IF Len(ws) < 3 THEN [output |-> o, err |-> Nil]
                 ELSE LET arg == Split(ws[3], "+")
                      IN  IF Len(arg) # 3 THEN [output |-> o, err |-> Nil]
                          ELSE [output |-> Output(ws[1],
                                                  <<Mode(arg[1], FALSE, TRUE)>>,
                                                  con),
                                err |-> Nil]

\* parseOutputLine: [output, err]
parseOutputLine(l) ==
    LET ws == ScanWords(l)
    IN  IF Len(ws) < 1 THEN [output |-> ZeroOutput, err |-> errNoName]
        ELSE IF Len(ws) < 2 THEN [output |-> ZeroOutput, err |-> errNoState]
        ELSE IF ws[2] \notin {sConnected, sDisconnected}
             THEN [output |-> ZeroOutput, err |-> errUnknownState]
        ELSE LET con == (ws[2] = sConnected)
                 o == Output(ws[1], <<>>, con)
             IN  IF con \/ Len(ws) < 3 THEN [output |-> o, err |-> Nil]
                 ELSE LET arg == Split(ws[3], "+")
                      IN  IF Len(arg) # 3 THEN [output |-> o, err |-> Nil]
                          ELSE [output |-> Output(ws[1],
                                                  <<Mode(arg[1], FALSE, TRUE)>>,
                                                  con),
                                err |-> Nil]

\* parseModeLine with the two indexes exchanged: "+" looked for before the
\* last character, "*" at the last one
parseModeLine_FlagsSwapped(l) ==
    LET ws == ScanWords(l)
    IN  IF ~HasPrefix(l, <<" ", " ">>)
        THEN [mode |-> ZeroMode, err |-> errNotModeLine, panic |-> FALSE]
        ELSE IF Len(ws) < 1
        THEN [mode |-> ZeroMode, err |-> errNoModeName, panic |-> FALSE]
        ELSE IF Len(ws) < 2
        THEN [mode |-> ZeroMode, err |-> errNoRate, panic |-> FALSE]
        ELSE LET rate == ws[2]
                 n == Len(rate)
             IN  IF n - 1 < 1
                 THEN [mode |-> ZeroMode, err |-> Nil, panic |-> TRUE]
                 ELSE [mode |-> Mode(ws[1],
                                     rate[n - 1] = "+"
                                        \/ (Len(ws) >= 3 /\ ws[3] = <<"+">>),
                                     rate[n] = "*"),
                       err |-> Nil, panic |-> FALSE]

\* parseModeLine taking one leading space for the indentation of a mode line
parseModeLine_OneSpace(l) ==
    LET ws == ScanWords(l)
    IN  IF ~HasPrefix(l, <<" ">>)
        THEN [mode |-> ZeroMode, err |-> errNotModeLine, panic |-> FALSE]
        ELSE IF Len(ws) < 1
        THEN [mode |-> ZeroMode, err |-> errNoModeName, panic |-> FALSE]
        ELSE IF Len(ws) < 2
        THEN [mode |-> ZeroMode, err |-> errNoRate, panic |-> FALSE]
        ELSE LET rate == ws[2]
                 n == Len(rate)
             IN  IF n - 1 < 1
                 THEN [mode |-> ZeroMode, err |-> Nil, panic |-> TRUE]
                 ELSE [mode |-> Mode(ws[1],
                                     rate[n] = "+"
                                        \/ (Len(ws) >= 3 /\ ws[3] = <<"+">>),
                                     rate[n - 1] = "*"),
                       err |-> Nil, panic |-> FALSE]

\* parseModeLine: [mode, err, panic]; panic is the index-out-of-range of
\* rate[len(rate)-2] on a one-character rate token
parseModeLine(l) ==
    LET ws == ScanWords(l)
    IN  IF ~HasPrefix(l, <<" ", " ">>)
        THEN [mode |-> ZeroMode, err |-> errNotModeLine, panic |-> FALSE]
        ELSE IF Len(ws) < 1
        THEN [mode |-> ZeroMode, err |-> errNoModeName, panic |-> FALSE]
        ELSE IF Len(ws) < 2
        THEN [mode |-> ZeroMode, err |-> errNoRate, panic |-> FALSE]
        ELSE LET rate == ws[2]
                 n == Len(rate)
                 def1 == (rate[n] = "+")
             IN  IF n - 1 < 1
                 THEN [mode |-> ZeroMode, err |-> Nil, panic |-> TRUE]
                 ELSE [mode |-> Mode(ws[1],
                                     def1 \/ (Len(ws) >= 3 /\ ws[3] = <<"+">>),
                                     rate[n - 1] = "*"),
                       err |-> Nil, panic |-> FALSE]

---------------------------------------------------------------------------
(* The lines a report is made of *)

\* 'Screen 0'
lScreen0 == <<"S","c","r","e","e","n"," ","0">>
\* 'Screen 1'
lScreen1 == <<"S","c","r","e","e","n"," ","1">>
\* 'HDMI1 connected 1920x1080+0+0'
lHDMI1 == <<"H","D","M","I","1"," ","c","o","n","n","e","c","t","e","d"," ","1","9","2","0","x","1","0","8","0","+","0","+","0">>
\* 'VGA1 disconnected'
lVGA1 == <<"V","G","A","1"," ","d","i","s","c","o","n","n","e","c","t","e","d">>
\* 'VGA1 disconnected 1024x768+0+0'
lVGA1Left == <<"V","G","A","1"," ","d","i","s","c","o","n","n","e","c","t","e","d"," ","1","0","2","4","x","7","6","8","+","0","+","0">>
\* 'DP1 disconnected 1024x768+0'
lDP1TwoParts == <<"D","P","1"," ","d","i","s","c","o","n","n","e","c","t","e","d"," ","1","0","2","4","x","7","6","8","+","0">>
\* 'DP1 unknown'
lDP1Unknown == <<"D","P","1"," ","u","n","k","n","o","w","n">>
\* 'DP1'
lDP1Only == <<"D","P","1">>
\* ''
lEmpty == <<>>
\* '  1920x1080 60.00+*'
lModePlusStar == <<" "," ","1","9","2","0","x","1","0","8","0"," ","6","0",".","0","0","+","*">>
\* '  1920x1080 60.00*+ 59.94'
lModeStarPlus == <<" "," ","1","9","2","0","x","1","0","8","0"," ","6","0",".","0","0","*","+"," ","5","9",".","9","4">>
\* '  1024x768 60.00*'
lModeStar == <<" "," ","1","0","2","4","x","7","6","8"," ","6","0",".","0","0","*">>
\* '  1024x768 60.00 +'
lModeSepPlus == <<" "," ","1","0","2","4","x","7","6","8"," ","6","0",".","0","0"," ","+">>
\* '  800x600 60.00 59.94 +'
lModeLatePlus == <<" "," ","8","0","0","x","6","0","0"," ","6","0",".","0","0"," ","5","9",".","9","4"," ","+">>
\* '  800x600 6'
lModeShortRate == <<" "," ","8","0","0","x","6","0","0"," ","6">>
\* '  800x600'
lModeNoRate == <<" "," ","8","0","0","x","6","0","0">>
\* '  '
lTwoSpaces == <<" "," ">>
\* '   1024x768 75.00*+'
lIndent3 == <<" "," "," ","1","0","2","4","x","7","6","8"," ","7","5",".","0","0","*","+">>
\* ' DP1 connected'
lIndent1 == <<" ","D","P","1"," ","c","o","n","n","e","c","t","e","d">>
\* '  DP1 connected'
lIndent2Output == <<" "," ","D","P","1"," ","c","o","n","n","e","c","t","e","d">>

LinePool ==
    {lScreen0, lScreen1, lHDMI1, lVGA1,
     lVGA1Left, lDP1TwoParts, lDP1Unknown, lDP1Only,
     lEmpty, lModePlusStar, lModeStarPlus, lModeStar,
     lModeSepPlus, lModeLatePlus, lModeShortRate, lModeNoRate,
     lTwoSpaces, lIndent3, lIndent1, lIndent2Output}

---------------------------------------------------------------------------
(* RandrParse *)

\* the other operations' variables while one operation is being run
BuildIdle ==
    /\ rule = <<>> /\ current = <<>> /\ mapOrder = <<>>
    /\ cmds = <<>> /\ berr = Nil /\ bpc = "idle"

QueryIdle ==
    /\ os = <<>> /\ name = <<>> /\ qret = FALSE /\ qpc = "idle"
    /\ other = <<>>

ParseIdle ==
    /\ input = <<>> /\ line = <<>> /\ state = StateStart
    /\ output = ZeroOutput /\ outputs = <<>> /\ err = Nil /\ pc = "idle"

\* lines 222-233: the scanner, state = StateStart, the zero output
InitParse ==
    /\ input = <<>>
    /\ line = <<>>
    /\ state = StateStart
    /\ output = ZeroOutput
    /\ outputs = <<>>
    /\ err = Nil
    /\ pc = "scan"
    /\ BuildIdle
    /\ QueryIdle

\* line 236-237: ls.Scan() delivers the next line
ScanLine ==
    /\ pc = "scan"
    /\ Len(input) < MaxLines
    /\ \E l \in LinePool :
          /\ line' = l
          /\ input' = Append(input, l)
    /\ pc' = "switch"
    /\ UNCHANGED <<state, output, outputs, err>>
    /\ UNCHANGED <<buildVars, queryVars>>

\* ScanEnd without the final append: the output in progress is lost
ScanEnd_DropsLast ==
    /\ pc = "scan"
    /\ pc' = "returned"
    /\ UNCHANGED <<input, line, state, output, outputs, err>>
    /\ UNCHANGED <<buildVars, queryVars>>

\* lines 275-279: ls.Scan() reports the end of the input
ScanEnd ==
    /\ pc = "scan"
    /\ outputs' = IF output.Name # <<>> THEN Append(outputs, output)
                                        ELSE outputs
    /\ pc' = "returned"
    /\ UNCHANGED <<input, line, state, output, err>>
    /\ UNCHANGED <<buildVars, queryVars>>

\* lines 241-246
CaseStart ==
    /\ pc = "switch"
    /\ state = StateStart
    /\ IF HasPrefix(line, sScreenSp)
       THEN /\ state' = StateOutput
            /\ pc' = "scan"
            /\ UNCHANGED <<outputs, err>>
       ELSE /\ outputs' = <<>>
            /\ err' = errFirstLine
            /\ pc' = "returned"
            /\ UNCHANGED state
    /\ UNCHANGED <<input, line, output>>
    /\ UNCHANGED <<buildVars, queryVars>>

\* lines 248-254
CaseOutput ==
    /\ pc = "switch"
    /\ state = StateOutput
    /\ LET r == parseOutputLine(line)
       IN  IF r.err # Nil
           THEN /\ outputs' = <<>>
                /\ err' = r.err
                /\ output' = r.output
                /\ pc' = "returned"
                /\ UNCHANGED state
           ELSE /\ output' = r.output
                /\ state' = StateMode
                /\ pc' = "scan"
                /\ UNCHANGED <<outputs, err>>
    /\ UNCHANGED <<input, line>>
    /\ UNCHANGED <<buildVars, queryVars>>

\* lines 256-270
CaseMode ==
    /\ pc = "switch"
    /\ state = StateMode
    /\ LET r == parseModeLine(line)
       IN  IF r.panic
           THEN /\ pc' = "panicked"
                /\ UNCHANGED <<state, output, outputs, err>>
           ELSE IF r.err = errNotModeLine
           THEN \* the inner loop runs again on the same line
                /\ outputs' = Append(outputs, output)
                /\ output' = ZeroOutput
                /\ state' = StateOutput
                /\ pc' = "switch"
                /\ UNCHANGED err
           ELSE IF r.err # Nil
           THEN /\ outputs' = <<>>
                /\ err' = r.err
                /\ pc' = "returned"
                /\ UNCHANGED <<state, output>>
           ELSE /\ output' = [output EXCEPT !.Modes = Append(@, r.mode)]
                /\ pc' = "scan"
                /\ UNCHANGED <<state, outputs, err>>
    /\ UNCHANGED <<input, line>>
    /\ UNCHANGED <<buildVars, queryVars>>

NextParse ==
    \/ ScanLine
    \/ ScanEnd
    \/ CaseStart
    \/ CaseOutput
    \/ CaseMode

SpecParse == InitParse /\ [][NextParse]_vars

---------------------------------------------------------------------------
(* BuildCommandOutputRow *)

\* 'LVDS1'
nLVDS1 == <<"L","V","D","S","1">>
\* 'VGA1'
nVGA1 == <<"V","G","A","1">>
\* 'HDMI2'
nHDMI2 == <<"H","D","M","I","2">>
\* 'DP1'
nDP1 == <<"D","P","1">>
\* '1024x768'
m1024x768 == <<"1","0","2","4","x","7","6","8">>
\* '1920x1080'
m1920x1080 == <<"1","9","2","0","x","1","0","8","0">>
\* 'VGA1@1024x768'
eVGA1At1024 == <<"V","G","A","1","@","1","0","2","4","x","7","6","8">>
\* 'DP1@1024x768'
eDP1At1024 == <<"D","P","1","@","1","0","2","4","x","7","6","8">>

\* an entry whose mode after the "@" is empty
eHDMI2At == <<"H","D","M","I","2","@">>
\* '--output'
optOutput == <<"-","-","o","u","t","p","u","t">>
\* '--auto'
optAuto == <<"-","-","a","u","t","o">>
\* '--mode'
optMode == <<"-","-","m","o","d","e">>
\* '--right-of'
optRightOf == <<"-","-","r","i","g","h","t","-","o","f">>
\* '--off'
optOff == <<"-","-","o","f","f">>

errEmptyRow == "empty monitor row configuration"

\* Rule: the fields BuildCommandOutputRow reads
Rule(single, row, atomic, order) ==
    [ConfigureSingle |-> single, ConfigureRow |-> row,
     Atomic |-> atomic, DisableOrder |-> order]

\* HasLayout without the ConfigureSingle case
HasLayout_RowOnly(r) == Len(r.ConfigureRow) > 0

\* lines 319-326: the target list; the default case is HasLayout = FALSE
HasLayout(r) == r.ConfigureSingle # <<>> \/ Len(r.ConfigureRow) > 0

\* Targets preferring ConfigureRow to ConfigureSingle
Targets_RowFirst(r) ==
    IF Len(r.ConfigureRow) > 0 THEN r.ConfigureRow
    ELSE <<r.ConfigureSingle>>

Targets(r) ==
    IF r.ConfigureSingle # <<>> THEN <<r.ConfigureSingle>>
    ELSE r.ConfigureRow

\* lines 336-341: name and mode of a "name[@mode]" entry
EntryName(e) == SplitN2(e, "@")[1]

EntryMode(e) ==
    LET data == SplitN2(e, "@")
    IN  IF Len(data) > 1 THEN data[2] ELSE <<>>

\* EnableArgs placing an output right of the previous entry as written,
\* "@mode" included
EnableArgs_RawPrevious(outs, i) ==
    <<optOutput, EntryName(outs[i])>>
    \o (IF EntryMode(outs[i]) = <<>> THEN <<optAuto>>
        ELSE <<optMode, EntryMode(outs[i])>>)
    \o (IF i > 1 THEN <<optRightOf, outs[i - 1]>> ELSE <<>>)

\* lines 345-355: the arguments that enable outs[i]; lastOutput is the name
\* of outs[i-1]
EnableArgs(outs, i) ==
    <<optOutput, EntryName(outs[i])>>
    \o (IF EntryMode(outs[i]) = <<>> THEN <<optAuto>>
        ELSE <<optMode, EntryMode(outs[i])>>)
    \o (IF i > 1 THEN <<optRightOf, EntryName(outs[i - 1])>> ELSE <<>>)

\* lines 331-359: enableOutputArgs
EnableOutputArgs(outs) == [i \in 1..Len(outs) |-> EnableArgs(outs, i)]

\* line 343: the keys of the map active
ActiveNames(outs) == {EntryName(outs[i]) : i \in 1..Len(outs)}

\* Skipped testing for an Active mode instead of any mode
Skipped_NoActiveMode(o) ==
    ~o.Connected /\ ~\E k \in 1..Len(o.Modes) : o.Modes[k].Active

\* lines 363-365: the outputs the loop skips
Skipped(o) == ~o.Connected /\ Len(o.Modes) = 0

\* lines 361-371: the keys of the map disableOutputs
DisableOutputs(cur, act) ==
    {cur[i].Name : i \in {j \in 1..Len(cur) :
                            ~Skipped(cur[j]) /\ cur[j].Name \notin act}}

\* lines 378: one disable group
DisableArgs(n) == <<optOutput, n, optOff>>

\* OrderedDisables without the delete from the map
RECURSIVE OrderedDisables_NoDelete(_, _)
OrderedDisables_NoDelete(order, set) ==
    IF order = <<>> THEN <<>>
    ELSE IF Head(order) \in set
         THEN <<Head(order)>> \o OrderedDisables_NoDelete(Tail(order), set)
         ELSE OrderedDisables_NoDelete(Tail(order), set)

\* lines 376-383: the names the disable_order loop appends, each deleted
\* from the map as it is appended
RECURSIVE OrderedDisables(_, _)
OrderedDisables(order, set) ==
    IF order = <<>> THEN <<>>
    ELSE IF Head(order) \in set
         THEN <<Head(order)>> \o OrderedDisables(Tail(order), set \ {Head(order)})
         ELSE OrderedDisables(Tail(order), set)

\* the keys left in the map disableOutputs after the disable_order loop
RemainingDisables(order, set) ==
    set \ {order[i] : i \in 1..Len(order)}

\* the orders in which `for name := range disableOutputs` can visit a map
\* with the keys S: Go leaves the iteration order of a map unspecified
MapOrders(S) ==
    {f \in [1..Cardinality(S) -> S] :
        \A i, j \in 1..Cardinality(S) : f[i] = f[j] => i = j}

\* DisableOutputArgs collecting the rest of the map before honouring
\* disable_order
DisableOutputArgs_MapFirst(r, cur, mo) ==
    LET set == DisableOutputs(cur, ActiveNames(Targets(r)))
        names == mo \o OrderedDisables(r.DisableOrder, set)
    IN  [i \in 1..Len(names) |-> DisableArgs(names[i])]

\* lines 373-389: disableOutputArgs, the map being visited in the order mo
DisableOutputArgs(r, cur, mo) ==
    LET set == DisableOutputs(cur, ActiveNames(Targets(r)))
        names == OrderedDisables(r.DisableOrder, set) \o mo
    IN  [i \in 1..Len(names) |-> DisableArgs(names[i])]

\* append(args, group...) over all groups
RECURSIVE Flatten(_)
Flatten(groups) ==
    IF groups = <<>> THEN <<>> ELSE Head(groups) \o Flatten(Tail(groups))

\* AtomicCmds appending the enable groups first
AtomicCmds_EnablesFirst(dis, en) == <<Flatten(en) \o Flatten(dis)>>

\* lines 392-403: the single call of an atomic rule
AtomicCmds(dis, en) == <<Flatten(dis) \o Flatten(en)>>

\* PairCmds with the loop condition && in place of ||: it stops as soon as
\* one of the two queues is empty
RECURSIVE PairCmds_UntilEitherEmpty(_, _)
PairCmds_UntilEitherEmpty(dis, en) ==
    IF dis = <<>> \/ en = <<>> THEN <<>>
    ELSE <<Head(dis) \o Head(en)>>
         \o PairCmds_UntilEitherEmpty(Tail(dis), Tail(en))

\* PairCmds with the enable put before the disable of a pair
RECURSIVE PairCmds_EnableFirst(_, _)
PairCmds_EnableFirst(dis, en) ==
    IF dis = <<>> /\ en = <<>> THEN <<>>
    ELSE <<(IF en # <<>> THEN Head(en) ELSE <<>>)
           \o (IF dis # <<>> THEN Head(dis) ELSE <<>>)>>
         \o PairCmds_EnableFirst(IF dis # <<>> THEN Tail(dis) ELSE dis,
                                 IF en # <<>> THEN Tail(en) ELSE en)

\* lines 417-429: the loop that pairs one disable with one enable per call
RECURSIVE PairCmds(_, _)
PairCmds(dis, en) ==
    IF dis = <<>> /\ en = <<>> THEN <<>>
    ELSE <<(IF dis # <<>> THEN Head(dis) ELSE <<>>)
           \o (IF en # <<>> THEN Head(en) ELSE <<>>)>>
         \o PairCmds(IF dis # <<>> THEN Tail(dis) ELSE dis,
                     IF en # <<>> THEN Tail(en) ELSE en)

\* SplitCmds without the lone first disable
SplitCmds_NoLoneDisable(dis, en) == PairCmds(dis, en)

\* SplitCmds emitting every enable before the disables
SplitCmds_EnablesFirst(dis, en) == PairCmds(<<>>, en) \o PairCmds(dis, <<>>)

\* lines 408-431: the calls of a rule that is not atomic
SplitCmds(dis, en) ==
    IF Len(dis) > 0 THEN <<Head(dis)>> \o PairCmds(Tail(dis), en)
    ELSE PairCmds(dis, en)

\* BuildCommandOutputRow(rule, current), the map disableOutputs being
\* visited in the order mo: [cmds, err]
BuildCommandOutputRow(r, cur, mo) ==
    IF ~HasLayout(r) THEN [cmds |-> <<>>, err |-> errEmptyRow]
    ELSE LET en == EnableOutputArgs(Targets(r))
             dis == DisableOutputArgs(r, cur, mo)
         IN  [cmds |-> IF r.Atomic THEN AtomicCmds(dis, en)
                       ELSE SplitCmds(dis, en),
              err |-> Nil]

\* the iteration orders possible for a call
CallMapOrders(r, cur) ==
    IF ~HasLayout(r) THEN {<<>>}
    ELSE MapOrders(RemainingDisables(r.DisableOrder,
                       DisableOutputs(cur, ActiveNames(Targets(r)))))

\* every sequence over S of length at most n
SeqsUpTo(S, n) == UNION {[1..k -> S] : k \in 0..n}

\* the rules handed to BuildCommandOutputRow
SinglePool == {<<>>, nLVDS1, eDP1At1024}

RowPool ==
    {<<>>,
     <<eHDMI2At>>,
     <<nLVDS1, eVGA1At1024>>,
     <<eVGA1At1024, nLVDS1, nHDMI2>>}

OrderPool ==
    {<<>>,
     <<nVGA1, nHDMI2>>,
     <<nHDMI2, nVGA1>>,
     <<nDP1, nLVDS1, nDP1>>}

RulePool ==
    {Rule(s, r, a, o) : s \in SinglePool, r \in RowPool,
                        a \in BOOLEAN, o \in OrderPool}

\* the outputs of the current model: connected, disconnected without modes,
\* disconnected with a leftover active mode, disconnected with a mode that
\* is not active
OutputPool ==
    {Output(nHDMI2, <<Mode(m1920x1080, TRUE, TRUE)>>, TRUE),
     Output(nLVDS1, <<>>, FALSE),
     Output(nLVDS1, <<Mode(m1920x1080, TRUE, TRUE)>>, TRUE),
     Output(nVGA1, <<Mode(m1024x768, FALSE, TRUE)>>, FALSE),
     Output(nDP1, <<Mode(m1024x768, FALSE, FALSE)>>, FALSE)}

InitBuild ==
    /\ rule \in RulePool
    /\ current \in SeqsUpTo(OutputPool, MaxCurrent)
    /\ mapOrder = <<>>
    /\ cmds = <<>>
    /\ berr = Nil
    /\ bpc = "call"
    /\ ParseIdle
    /\ QueryIdle

\* lines 324-325: the rule has no layout
BuildEmpty ==
    /\ bpc = "call"
    /\ ~HasLayout(rule)
    /\ LET r == BuildCommandOutputRow(rule, current, <<>>)
       IN  /\ cmds' = r.cmds
           /\ berr' = r.err
    /\ bpc' = "returned"
    /\ UNCHANGED <<rule, current, mapOrder>>
    /\ UNCHANGED <<parseVars, queryVars>>

\* lines 327-403: an atomic rule
BuildAtomic ==
    /\ bpc = "call"
    /\ HasLayout(rule)
    /\ rule.Atomic
    /\ \E mo \in CallMapOrders(rule, current) :
          LET r == BuildCommandOutputRow(rule, current, mo)
          IN  /\ mapOrder' = mo
              /\ cmds' = r.cmds
              /\ berr' = r.err
    /\ bpc' = "returned"
    /\ UNCHANGED <<rule, current>>
    /\ UNCHANGED <<parseVars, queryVars>>

\* lines 327-389, 405-431: a rule that is not atomic
BuildSplit ==
    /\ bpc = "call"
    /\ HasLayout(rule)
    /\ ~rule.Atomic
    /\ \E mo \in CallMapOrders(rule, current) :
          LET r == BuildCommandOutputRow(rule, current, mo)
          IN  /\ mapOrder' = mo
              /\ cmds' = r.cmds
              /\ berr' = r.err
    /\ bpc' = "returned"
    /\ UNCHANGED <<rule, current>>
    /\ UNCHANGED <<parseVars, queryVars>>

NextBuild ==
    \/ BuildEmpty
    \/ BuildAtomic
    \/ BuildSplit

SpecBuild == InitBuild /\ [][NextBuild]_vars

---------------------------------------------------------------------------
(* Outputs.Present, Outputs.Connected *)

ErrBadPattern == "syntax error in pattern"

\* the characters of output names and patterns' ranges, in code point order
Alphabet ==
    <<"-", "0", "1", "2", "3", "4", "5", "6", "7", "8", "9",
      "A", "B", "C", "D", "E", "F", "G", "H", "I", "J", "K", "L", "M",
      "N", "O", "P", "Q", "R", "S", "T", "U", "V", "W", "X", "Y", "Z">>

CharOrd(c) == CHOOSE i \in 1..Len(Alphabet) : Alphabet[i] = c

\* path.getEsc at p[j]: the index of the character it yields, or 0 for
\* ErrBadPattern (nothing left, an unescaped - or ], a \ that ends the
\* pattern, a character that ends the pattern inside the class)
GetEsc(p, j) ==
    IF j > Len(p) \/ p[j] \in {"-", "]"} THEN 0
    ELSE LET k == IF p[j] = "\\" THEN j + 1 ELSE j
         IN  IF k + 1 > Len(p) THEN 0 ELSE k

\* the ranges of the character class whose first range starts at p[j]:
\* [ok, end, ranges], end being the index of the closing ]
RECURSIVE ParseRanges(_, _, _)
ParseRanges(p, j, ranges) ==
    IF j <= Len(p) /\ p[j] = "]" /\ Len(ranges) > 0
    THEN [ok |-> TRUE, end |-> j, ranges |-> ranges]
    ELSE LET lo == GetEsc(p, j)
         IN  IF lo = 0 THEN [ok |-> FALSE, end |-> 0, ranges |-> <<>>]
             ELSE IF p[lo + 1] = "-"
             THEN LET hi == GetEsc(p, lo + 2)
                  IN  IF hi = 0 THEN [ok |-> FALSE, end |-> 0, ranges |-> <<>>]
                      ELSE ParseRanges(p, hi + 1,
                               Append(ranges, <<p[lo], p[hi]>>))
             ELSE ParseRanges(p, lo + 1, Append(ranges, <<p[lo], p[lo]>>))

\* the character class that starts with the [ at p[i]
ParseClass(p, i) ==
    LET negated == i + 1 <= Len(p) /\ p[i + 1] = "^"
        r == ParseRanges(p, IF negated THEN i + 2 ELSE i + 1, <<>>)
    IN  [ok |-> r.ok, end |-> r.end, ranges |-> r.ranges, negated |-> negated]

InClass(c, cl) ==
    (\E k \in 1..Len(cl.ranges) :
        /\ CharOrd(cl.ranges[k][1]) <= CharOrd(c)
        /\ CharOrd(c) <= CharOrd(cl.ranges[k][2])) # cl.negated

\* the pattern from p[i] on is syntactically valid
RECURSIVE WellFormedFrom(_, _)
WellFormedFrom(p, i) ==
    IF i > Len(p) THEN TRUE
    ELSE IF p[i] = "\\" THEN i + 1 <= Len(p) /\ WellFormedFrom(p, i + 2)
    ELSE IF p[i] = "["
         THEN ParseClass(p, i).ok /\ WellFormedFrom(p, ParseClass(p, i).end + 1)
    ELSE WellFormedFrom(p, i + 1)

\* the valid pattern from p[i] on matches the name from n[k] on
RECURSIVE MatchesFrom(_, _, _, _)
MatchesFrom(p, i, n, k) ==
    IF i > Len(p) THEN k > Len(n)
    ELSE IF p[i] = "*"
         THEN \E k2 \in k..(Len(n) + 1) :
                  /\ \A x \in k..(k2 - 1) : n[x] # "/"
                  /\ MatchesFrom(p, i + 1, n, k2)
    ELSE IF k > Len(n) THEN FALSE
    ELSE IF p[i] = "?" THEN n[k] # "/" /\ MatchesFrom(p, i + 1, n, k + 1)
    ELSE IF p[i] = "["
         THEN /\ InClass(n[k], ParseClass(p, i))
              /\ MatchesFrom(p, ParseClass(p, i).end + 1, n, k + 1)
    ELSE IF p[i] = "\\"
         THEN n[k] = p[i + 1] /\ MatchesFrom(p, i + 2, n, k + 1)
    ELSE n[k] = p[i] /\ MatchesFrom(p, i + 1, n, k + 1)

\* path.Match(pattern, name): [matched, err]; the only error is
\* ErrBadPattern, returned for a malformed pattern
Match(pattern, n) ==
    IF ~WellFormedFrom(pattern, 1) THEN [matched |-> FALSE, err |-> ErrBadPattern]
    ELSE [matched |-> MatchesFrom(pattern, 1, n, 1), err |-> Nil]

\* lines 61-71: the loop of Present from os[i] on
RECURSIVE PresentFrom(_, _, _)
PresentFrom(list, pattern, i) ==
    IF i > Len(list) THEN FALSE
    ELSE LET r == Match(pattern, list[i].Name)
         IN  IF r.err # Nil THEN FALSE
             ELSE IF r.matched THEN TRUE
             ELSE PresentFrom(list, pattern, i + 1)

Present(list, pattern) == PresentFrom(list, pattern, 1)

\* ConnectedFrom answering with the first output that matches
RECURSIVE ConnectedFrom_FirstMatch(_, _, _)
ConnectedFrom_FirstMatch(list, pattern, i) ==
    IF i > Len(list) THEN FALSE
    ELSE LET r == Match(pattern, list[i].Name)
         IN  IF r.err # Nil THEN FALSE
             ELSE IF r.matched THEN list[i].Connected
             ELSE ConnectedFrom_FirstMatch(list, pattern, i + 1)

\* lines 77-87: the loop of Connected from os[i] on
RECURSIVE ConnectedFrom(_, _, _)
ConnectedFrom(list, pattern, i) ==
    IF i > Len(list) THEN FALSE
    ELSE LET r == Match(pattern, list[i].Name)
         IN  IF r.err # Nil THEN FALSE
             ELSE IF r.matched /\ list[i].Connected THEN TRUE
             ELSE ConnectedFrom(list, pattern, i + 1)

Connected(list, pattern) == ConnectedFrom(list, pattern, 1)

\* 'DP2-2'
nDP2_2 == <<"D","P","2","-","2">>
\* 'DP2-20'
nDP2_20 == <<"D","P","2","-","2","0">>
\* 'DP2-?'
pDP2Any1 == <<"D","P","2","-","?">>
\* 'DP2-*'
pDP2Star == <<"D","P","2","-","*">>
\* 'DP2-2'
pDP2_2 == <<"D","P","2","-","2">>
\* '*'
pStar == <<"*">>
\* 'DP2-[0-9]'
pDP2Class == <<"D","P","2","-","[","0","-","9","]">>
\* '[^D]*'
pNotD == <<"[","^","D","]","*">>
\* '\\VGA1'
pEscaped == <<"\\","V","G","A","1">>
\* 'DP2-['
pOpenClass == <<"D","P","2","-","[">>
\* 'DP2-20\\'
pTrailingEsc == <<"D","P","2","-","2","0","\\">>
\* '[]*'
pEmptyClass == <<"[","]","*">>

PatternPool ==
    {pDP2Any1, pDP2Star, pDP2_2, pStar, pDP2Class, pNotD, pEscaped,
     pOpenClass, pTrailingEsc, pEmptyClass}

QueryOutputPool ==
    {Output(nDP2_2, <<>>, FALSE),
     Output(nDP2_2, <<Mode(m1920x1080, TRUE, TRUE)>>, TRUE),
     Output(nDP2_20, <<>>, FALSE),
     Output(nDP2_20, <<Mode(m1920x1080, TRUE, TRUE)>>, TRUE),
     Output(nLVDS1, <<Mode(m1024x768, TRUE, TRUE)>>, TRUE),
     Output(nVGA1, <<>>, FALSE)}

InitQuery ==
    /\ os \in SeqsUpTo(QueryOutputPool, MaxOutputs)
    /\ name \in PatternPool
    /\ other = <<>>
    /\ qret = FALSE
    /\ qpc = "call"
    /\ ParseIdle
    /\ BuildIdle

\* lines 60-72
CallPresent ==
    /\ qpc = "call"
    /\ qret' = Present(os, name)
    /\ qpc' = "present"
    /\ UNCHANGED <<os, name, other>>
    /\ UNCHANGED <<parseVars, buildVars>>

\* lines 76-88
CallConnected ==
    /\ qpc = "call"
    /\ qret' = Connected(os, name)
    /\ qpc' = "connected"
    /\ UNCHANGED <<os, name, other>>
    /\ UNCHANGED <<parseVars, buildVars>>

NextQuery ==
    \/ CallPresent
    \/ CallConnected

SpecQuery == InitQuery /\ [][NextQuery]_vars

---------------------------------------------------------------------------
(* Output.Equals, Outputs.Equals *)

\* Output.Equals comparing the names of the modes only
OutputEquals_NoModeFlags(o, o2) ==
    /\ o.Name = o2.Name
    /\ o.Connected = o2.Connected
    /\ Len(o.Modes) = Len(o2.Modes)
    /\ \A i \in 1..Len(o.Modes) : o.Modes[i].Name = o2.Modes[i].Name

\* lines 35-54: Output.Equals; m1 != m2 compares the Mode structs field by
\* field
OutputEquals(o, o2) ==
    IF o.Name # o2.Name \/ o.Connected # o2.Connected THEN FALSE
    ELSE IF Len(o.Modes) # Len(o2.Modes) THEN FALSE
    ELSE \A i \in 1..Len(o.Modes) : ~(o.Modes[i] # o2.Modes[i])

\* lines 91-106: Outputs.Equals
OutputsEquals(a, b) ==
    IF Len(a) # Len(b) THEN FALSE
    ELSE \A i \in 1..Len(a) : OutputEquals(a[i], b[i])

\* an Output as Equals meets it; NilModes tells a nil Modes slice from an
\* empty one that is not nil, both of length 0
EqOutput(n, ms, c, isNil) ==
    [Name |-> n, Modes |-> ms, Connected |-> c, NilModes |-> isNil]

\* outputs that differ in one respect each: nil or empty mode list, the
\* Connected flag, the Name, one more mode, a mode's Default, Active, Name
EqualsPool ==
    {EqOutput(nVGA1, <<>>, FALSE, TRUE),
     EqOutput(nVGA1, <<>>, FALSE, FALSE),
     EqOutput(nVGA1, <<>>, TRUE, TRUE),
     EqOutput(nHDMI2, <<>>, FALSE, TRUE),
     EqOutput(nVGA1, <<Mode(m1024x768, FALSE, TRUE)>>, FALSE, FALSE),
     EqOutput(nVGA1, <<Mode(m1024x768, TRUE, TRUE)>>, FALSE, FALSE),
     EqOutput(nVGA1, <<Mode(m1024x768, FALSE, FALSE)>>, FALSE, FALSE),
     EqOutput(nVGA1, <<Mode(m1920x1080, FALSE, TRUE)>>, FALSE, FALSE),
     EqOutput(nVGA1, <<Mode(m1024x768, FALSE, TRUE),
                       Mode(m1920x1080, FALSE, FALSE)>>, FALSE, FALSE)}

InitEquals ==
    /\ os \in SeqsUpTo(EqualsPool, MaxEq)
    /\ other \in SeqsUpTo(EqualsPool, MaxEq)
    /\ name = <<>>
    /\ qret = FALSE
    /\ qpc = "call"
    /\ ParseIdle
    /\ BuildIdle

\* lines 91-106: os.Equals(other)
CallEquals ==
    /\ qpc = "call"
    /\ qret' = OutputsEquals(os, other)
    /\ qpc' = "equals"
    /\ UNCHANGED <<os, name, other>>
    /\ UNCHANGED <<parseVars, buildVars>>

\* lines 91-106: other.Equals(os)
CallEqualsSwapped ==
    /\ qpc = "call"
    /\ qret' = OutputsEquals(other, os)
    /\ qpc' = "swapped"
    /\ UNCHANGED <<os, name, other>>
    /\ UNCHANGED <<parseVars, buildVars>>

NextEquals ==
    \/ CallEquals
    \/ CallEqualsSwapped

SpecEquals == InitEquals /\ [][NextEquals]_vars

---------------------------------------------------------------------------
(* Properties of RandrParse *)

nHDMI1 == <<"H","D","M","I","1">>

\* "Screen 0\nHDMI1 connected 1920x1080+0+0\n  1920x1080 60.00+*\nVGA1 disconnected\n"
ExampleReport == <<lScreen0, lHDMI1, lModePlusStar, lVGA1>>

\* the report opens with a line that begins with "Screen "
OpensWithScreen(report) ==
    Len(report) >= 1 /\ HasPrefix(report[1], sScreenSp)

\* C1 as stated: the example report parses, without error, to HDMI1
\* (connected, one mode 1920x1080 with Default and Active set) followed by
\* VGA1 (disconnected, no modes).
C1_ExampleDefaultActive ==
    (pc = "returned" /\ input = ExampleReport) =>
        /\ err = Nil
        /\ outputs = <<Output(nHDMI1, <<Mode(m1920x1080, TRUE, TRUE)>>, TRUE),
                       Output(nVGA1, <<>>, FALSE)>>

\* C1 amended: the example report parses, without error, to HDMI1 (connected,
\* one mode 1920x1080 with neither Default nor Active set, the rate token
\* "60.00+*" ending in "*" with "+" before it) followed by VGA1
\* (disconnected, no modes).
C1_ExampleParse ==
    (pc = "returned" /\ input = ExampleReport) =>
        /\ err = Nil
        /\ outputs = <<Output(nHDMI1, <<Mode(m1920x1080, FALSE, FALSE)>>, TRUE),
                       Output(nVGA1, <<>>, FALSE)>>

\* C1 witness: RandrParse has returned from the whole example report.
C1_ExampleParsed ==
    /\ pc = "returned"
    /\ input = ExampleReport
    /\ Len(outputs) = 2

\* C3: RandrParse ends by returning outputs without an error or an error
\* without outputs; it never ends in a panic.
C3_ReturnsOrFails ==
    /\ pc # "panicked"
    /\ pc = "returned" => (err = Nil \/ outputs = <<>>)

\* C9: RandrParse returns without error only for a report that opens with a
\* "Screen " line, and every other report yields an error and no outputs;
\* a later "Screen " line is handled as an output line, never as a header.
C9_HeaderRequired ==
    /\ pc = "returned" =>
          /\ err = Nil => OpensWithScreen(input)
          /\ ~OpensWithScreen(input) => (err # Nil /\ outputs = <<>>)
    /\ (pc = "switch" /\ Len(input) > 1) => state # StateStart

\* the line has the shape parseModeLine accepts: it begins with two spaces
ModeShaped(l) == Len(l) >= 2 /\ l[1] = " " /\ l[2] = " "

\* the increasing sequence of the elements of the set of integers S
RECURSIVE SortedSeq(_)
SortedSeq(S) ==
    IF S = {} THEN <<>>
    ELSE LET lo == CHOOSE x \in S : \A y \in S : x <= y
         IN  <<lo>> \o SortedSeq(S \ {lo})

\* the names (first words) of the lines report[a..b]
FirstWords(report, a, b) ==
    [k \in 1..(b - a + 1) |-> ScanWords(report[a + k - 1])[1]]

\* the outputs are those of the report whose output lines stand at the
\* indexes idx (increasing): one output per index, named by that line, its
\* modes ending with one mode per line up to the next index or the end of
\* the report, in report order, after at most one mode of the output line
BlocksMatch(outs, report, idx) ==
    /\ Len(outs) = Len(idx)
    /\ \A k \in 1..Len(idx) :
          LET first == idx[k]
              last == IF k < Len(idx) THEN idx[k + 1] - 1 ELSE Len(report)
              n == last - first
              own == Len(outs[k].Modes) - n
          IN  /\ outs[k].Name = ScanWords(report[first])[1]
              /\ outs[k].Connected = (ScanWords(report[first])[2] = sConnected)
              /\ own \in {0, 1}
              /\ [j \in 1..n |-> outs[k].Modes[own + j].Name]
                    = FirstWords(report, first + 1, last)

\* RandrParse has returned outputs for a report with a header
Parsed == pc = "returned" /\ err = Nil /\ OpensWithScreen(input)

\* C11 as stated: a report that parses yields one output per line after the
\* header that is not mode-shaped, in report order, each with the mode lines
\* that follow it up to the next such line or the end of the input.
C11_OutputPerNonModeLine ==
    Parsed =>
        BlocksMatch(outputs, input,
                    SortedSeq({i \in 2..Len(input) : ~ModeShaped(input[i])}))

\* C11 amended: a report that parses yields one output per output line, in
\* report order, an output line being the line right after the header
\* (whatever its indentation) and every later line that is not mode-shaped;
\* each output has the mode lines that follow it up to the next output line
\* or the end of the input, in report order; the last output is included
\* whether the report ends on its output line or on one of its mode lines.
C11_OutputPerOutputLine ==
    Parsed =>
        BlocksMatch(outputs, input,
                    SortedSeq({i \in 2..Len(input) :
                                  i = 2 \/ ~ModeShaped(input[i])}))

\* C11 witness: two outputs, the first with a mode line, the second started
\* by the line that ended the first one's modes and ending the report with a
\* mode line of its own.
C11_TwoBlocks ==
    /\ Parsed
    /\ Len(input) = 5
    /\ Len(outputs) = 2
    /\ ~ModeShaped(input[2]) /\ ModeShaped(input[3])
    /\ ~ModeShaped(input[4]) /\ ModeShaped(input[5])
    /\ Len(outputs[1].Modes) = 1
    /\ Len(outputs[2].Modes) >= 1

\* the line begins with two spaces and its third character is not a space
ExactlyTwoSpaces(l) == ModeShaped(l) /\ ~(Len(l) >= 3 /\ l[3] = " ")

\* RandrParse is collecting modes and is about to handle the line
CollectingModes == pc = "switch" /\ state = StateMode

\* the step handles the line as a mode line: the output in progress stays
\* open, and gains one mode unless the line is rejected
TreatedAsModeLine ==
    /\ state' = StateMode
    /\ pc' \in {"scan", "returned", "panicked"}
    /\ pc' = "scan" =>
          /\ outputs' = outputs
          /\ output'.Name = output.Name
          /\ Len(output'.Modes) = Len(output.Modes) + 1

\* the step ends the mode list: the output in progress joins the result and
\* the same line is about to be parsed as an output line
EndsModeList ==
    /\ outputs' = Append(outputs, output)
    /\ state' = StateOutput
    /\ pc' = "switch"
    /\ line' = line

\* C14 as stated: while collecting modes, a line is a mode line if and only
\* if it begins with exactly two spaces; every other line, one indented by
\* three or more spaces included, ends the mode list and is parsed as an
\* output line.
C14_ExactlyTwoSpaces ==
    [][CollectingModes =>
          IF ExactlyTwoSpaces(line) THEN TreatedAsModeLine ELSE EndsModeList]_vars

\* C14 amended: while collecting modes, a line is a mode line if and only if
\* it begins with two spaces, so a line indented by three or more spaces is
\* a mode line too; every line that does not begin with two spaces ends the
\* mode list and is parsed as an output line.
C14_TwoSpacePrefix ==
    [][CollectingModes =>
          IF ModeShaped(line) THEN TreatedAsModeLine ELSE EndsModeList]_vars

\* C14 witness: after one output was closed by an output line, a line
\* indented by three spaces has been taken as a mode of the next output.
C14_ThreeSpacesIsMode ==
    /\ pc = "scan"
    /\ state = StateMode
    /\ line = lIndent3
    /\ Len(outputs) >= 1
    /\ Len(output.Modes) >= 1
    /\ output.Modes[Len(output.Modes)] = Mode(m1024x768, TRUE, TRUE)

\* the flags the tokens of a mode line encode: Default from a rate token
\* ending in "+" or a following word "+", Active from a rate token whose
\* second-to-last character is "*"
RateDefault(ws) ==
    ws[2][Len(ws[2])] = "+" \/ (Len(ws) >= 3 /\ ws[3] = <<"+">>)

RateActive(ws) == Len(ws[2]) >= 2 /\ ws[2][Len(ws[2]) - 1] = "*"

\* C15: every mode line with a mode name and a refresh-rate token yields a
\* Mode of that name with Default set if and only if the rate token ends in
\* "+" or the next token is the word "+", and Active set if and only if the
\* rate token's second-to-last character is "*"; later tokens are ignored.
C15_ModeFlags ==
    [][(CollectingModes /\ ModeShaped(line) /\ Len(ScanWords(line)) >= 2) =>
          LET ws == ScanWords(line)
          IN  /\ pc' = "scan"
              /\ output'.Modes =
                    Append(output.Modes,
                           Mode(ws[1], RateDefault(ws), RateActive(ws)))]_vars

\* the number of "+" in a word, and the part of the word before the first
PlusCount(w) == Cardinality({i \in 1..Len(w) : w[i] = "+"})

BeforePlus(w) ==
    SubSeq(w, 1, (CHOOSE i \in 1..Len(w) :
                     w[i] = "+" /\ \A j \in 1..(i - 1) : w[j] # "+") - 1)

\* C16: an output line with a name and a known state raises no error and
\* records exactly one mode (Name = first part, Active, not Default), as the
\* output's first mode, when its state is "disconnected" and its third
\* field has exactly three "+"-separated parts; otherwise (connected, no
\* third field, another number of parts) it records no mode.
C16_OutputLineMode ==
    [][(pc = "switch" /\ state = StateOutput
            /\ Len(ScanWords(line)) >= 2
            /\ ScanWords(line)[2] \in {sConnected, sDisconnected}) =>
          LET ws == ScanWords(line)
          IN  /\ pc' = "scan"
              /\ err' = Nil
              /\ output'.Name = ws[1]
              /\ output'.Connected = (ws[2] = sConnected)
              /\ output'.Modes =
                    IF ws[2] = sDisconnected /\ Len(ws) >= 3
                                             /\ PlusCount(ws[3]) = 2
                    THEN <<Mode(BeforePlus(ws[3]), FALSE, TRUE)>>
                    ELSE <<>>]_vars

\* C16 witness: a disconnected output line with a geometry field has
\* recorded its mode, and a mode line has been appended after it.
C16_LeftoverModeFirst ==
    /\ pc = "scan"
    /\ state = StateMode
    /\ input[Len(input) - 1] = lVGA1Left
    /\ ModeShaped(line)
    /\ ~output.Connected
    /\ Len(output.Modes) = 2
    /\ output.Modes[1] = Mode(m1024x768, FALSE, TRUE)

---------------------------------------------------------------------------
(* Properties of BuildCommandOutputRow *)

\* the index of the first "--output" of args after position 1, or Len + 1
RECURSIVE NextGroup(_, _)
NextGroup(args, i) ==
    IF i > Len(args) \/ args[i] = optOutput THEN i ELSE NextGroup(args, i + 1)

\* the argument groups of one descriptor, each starting at an "--output"
RECURSIVE GroupsOf(_)
GroupsOf(args) ==
    IF args = <<>> THEN <<>>
    ELSE LET k == NextGroup(args, 2)
         IN  <<SubSeq(args, 1, k - 1)>> \o GroupsOf(SubSeq(args, k, Len(args)))

\* --output X --off
IsDisableGroup(g) == Len(g) = 3 /\ g[1] = optOutput /\ g[3] = optOff

\* --output X --auto|--mode M [--right-of Y]
IsEnableGroup(g) ==
    /\ Len(g) >= 3
    /\ g[1] = optOutput
    /\ \/ g[3] = optAuto /\ (Len(g) = 3 \/ (Len(g) = 5 /\ g[4] = optRightOf))
       \/ g[3] = optMode /\ (Len(g) = 4 \/ (Len(g) = 6 /\ g[5] = optRightOf))

\* all groups of all descriptors, in emission order
AllGroups(cs) == Flatten([i \in 1..Len(cs) |-> GroupsOf(cs[i])])

DisableGroups(cs) == SelectSeq(AllGroups(cs), IsDisableGroup)
EnableGroups(cs) == SelectSeq(AllGroups(cs), IsEnableGroup)

\* the names disabled, in emission order
DisabledNames(cs) ==
    [i \in 1..Len(DisableGroups(cs)) |-> DisableGroups(cs)[i][2]]

Range(f) == {f[i] : i \in DOMAIN f}

Max(a, b) == IF a >= b THEN a ELSE b

\* the rule populates ConfigureSingle or ConfigureRow
Populated(r) == r.ConfigureSingle # <<>> \/ r.ConfigureRow # <<>>

\* the names of the rule's targets, any "@mode" removed
TargetNames(r) ==
    IF r.ConfigureSingle # <<>> THEN {EntryName(r.ConfigureSingle)}
    ELSE {EntryName(e) : e \in Range(r.ConfigureRow)}

\* the call has returned descriptors
Built == bpc = "returned" /\ berr = Nil

\* the rule and the current outputs of the example of C2
ExampleRule == Rule(<<>>, <<nLVDS1, eVGA1At1024>>, FALSE, <<>>)
ExampleCurrent ==
    <<Output(nHDMI2, <<Mode(m1920x1080, TRUE, TRUE)>>, TRUE),
      Output(nLVDS1, <<>>, FALSE)>>

\* C2 as stated: the example yields two descriptors, the disable of HDMI2
\* and one descriptor holding both enable groups.
C2_ExampleTwoCalls ==
    (bpc = "returned" /\ rule = ExampleRule /\ current = ExampleCurrent) =>
        /\ berr = Nil
        /\ cmds = << <<optOutput, nHDMI2, optOff>>,
                     <<optOutput, nLVDS1, optAuto,
                       optOutput, nVGA1, optMode, m1024x768,
                       optRightOf, nLVDS1>> >>

\* C2 amended: the example yields three descriptors: the disable of HDMI2,
\* the enable of LVDS1 (--auto), and the enable of VGA1 (--mode 1024x768
\* --right-of LVDS1), each enable in a descriptor of its own.
C2_ExampleThreeCalls ==
    (bpc = "returned" /\ rule = ExampleRule /\ current = ExampleCurrent) =>
        /\ berr = Nil
        /\ cmds = << <<optOutput, nHDMI2, optOff>>,
                     <<optOutput, nLVDS1, optAuto>>,
                     <<optOutput, nVGA1, optMode, m1024x768,
                       optRightOf, nLVDS1>> >>

\* C2 witness: BuildCommandOutputRow has returned for the example.
C2_ExampleBuilt ==
    /\ bpc = "returned"
    /\ rule = ExampleRule
    /\ current = ExampleCurrent
    /\ Len(cmds) > 0

\* C4: a rule that is not atomic, with d disable groups and e enable groups,
\* yields 1 + max(d-1, e) descriptors when d > 0 and e descriptors when d = 0;
\* e is the number of target entries.
C4_SplitCount ==
    (Built /\ ~rule.Atomic) =>
        LET d == Len(DisableGroups(cmds))
            e == Len(EnableGroups(cmds))
        IN  /\ e = Len(Targets(rule))
            /\ Len(AllGroups(cmds)) = d + e
            /\ Len(cmds) = IF d > 0 THEN 1 + Max(d - 1, e) ELSE e

\* C4 witness: a split call with more disables left after the first one than
\* there are enables.
C4_MoreDisables ==
    /\ Built
    /\ ~rule.Atomic
    /\ Len(DisableGroups(cmds)) = 3
    /\ Len(EnableGroups(cmds)) = 1
    /\ Len(cmds) = 3

\* C5: an atomic rule yields exactly one descriptor: every disable group,
\* then every enable group; no enable group precedes a disable group.
C5_AtomicOneCall ==
    (Built /\ rule.Atomic) =>
        /\ Len(cmds) = 1
        /\ LET g == GroupsOf(cmds[1])
               d == Len(DisableGroups(cmds))
           IN  /\ \A i \in 1..Len(g) : IsDisableGroup(g[i]) <=> i <= d
               /\ \A i \in 1..Len(g) : IsEnableGroup(g[i]) <=> i > d
               /\ Len(g) = d + Len(Targets(rule))
               /\ d = Cardinality(Range(DisabledNames(cmds)))
               /\ Range(DisabledNames(cmds)) =
                      {o.Name : o \in {x \in Range(current) :
                                         (x.Connected \/ Len(x.Modes) > 0)
                                         /\ x.Name \notin TargetNames(rule)}}

\* C5 witness: an atomic call with several disables and several enables.
C5_AtomicMixed ==
    /\ Built
    /\ rule.Atomic
    /\ Len(DisableGroups(cmds)) >= 2
    /\ Len(EnableGroups(cmds)) >= 2

\* the position of the first occurrence of x in seq
FirstIndex(seq, x) == CHOOSE i \in 1..Len(seq) :
                         seq[i] = x /\ \A j \in 1..(i - 1) : seq[j] # x

\* C6: across the descriptors, the disabled outputs that DisableOrder names
\* come first, in DisableOrder's order, before every disabled output it does
\* not name; a name of DisableOrder outside the disable set is not disabled.
C6_DisableOrder ==
    Built =>
        LET names == DisabledNames(cmds)
            listed == Range(rule.DisableOrder)
        IN  /\ \A i, j \in 1..Len(names) :
                  (i < j /\ names[j] \in listed) =>
                      /\ names[i] \in listed
                      /\ FirstIndex(rule.DisableOrder, names[i])
                            < FirstIndex(rule.DisableOrder, names[j])
            /\ \A n \in listed :
                  (n \in Range(names)) <=>
                      \E o \in Range(current) :
                          /\ o.Name = n
                          /\ (o.Connected \/ Len(o.Modes) > 0)
                          /\ n \notin TargetNames(rule)

\* C6 witness: two listed outputs disabled in the listed order, then one
\* that is not listed.
C6_ListedThenUnlisted ==
    /\ Built
    /\ rule.DisableOrder = <<nVGA1, nHDMI2>>
    /\ DisabledNames(cmds) = <<nVGA1, nHDMI2, nDP1>>

C8_EmptyLayoutError ==
    bpc = "returned" =>
        /\ ~Populated(rule) => (berr = errEmptyRow /\ cmds = <<>>)
        /\ Populated(rule) => (berr = Nil /\ Len(cmds) >= 1)

\* C8 witness: the error is returned although outputs would need disabling.
C8_EmptyLayoutFailed ==
    /\ bpc = "returned"
    /\ ~Populated(rule)
    /\ berr = errEmptyRow
    /\ Len(current) > 0
    /\ Len(rule.DisableOrder) > 0

\* the disable groups and the enable groups emitted before descriptor k
DisablesBefore(cs, k) == Len(DisableGroups(SubSeq(cs, 1, k - 1)))
EnablesBefore(cs, k) == Len(EnableGroups(SubSeq(cs, 1, k - 1)))

\* C12: for a rule that is not atomic, with the disable queue non-empty the
\* first descriptor is exactly the first disable group; every later
\* descriptor is the next disable group (if one is left) followed by the
\* next enable group (if one is left): both when both queues are non-empty,
\* one alone when the other queue is empty; no descriptor is empty.
C12_SplitShape ==
    (Built /\ ~rule.Atomic) =>
        LET dq == DisableGroups(cmds)
            eq == EnableGroups(cmds)
        IN  /\ dq = DisableOutputArgs(rule, current, mapOrder)
            /\ eq = EnableOutputArgs(Targets(rule))
            /\ Len(dq) > 0 => cmds[1] = dq[1]
            /\ \A k \in 1..Len(cmds) :
                  LET db == DisablesBefore(cmds, k)
                      eb == EnablesBefore(cmds, k)
                  IN  /\ cmds[k] # <<>>
                      /\ (k > 1 \/ Len(dq) = 0) =>
                            GroupsOf(cmds[k]) =
                                (IF db < Len(dq) THEN <<dq[db + 1]>> ELSE <<>>)
                                \o (IF eb < Len(eq) THEN <<eq[eb + 1]>> ELSE <<>>)

\* C12 witness: a split call whose second descriptor pairs a disable with an
\* enable and whose last descriptor holds a single group.
C12_PairThenAlone ==
    /\ Built
    /\ ~rule.Atomic
    /\ Len(cmds) >= 3
    /\ GroupsOf(cmds[1]) = <<DisableGroups(cmds)[1]>>
    /\ Len(GroupsOf(cmds[2])) = 2
    /\ Len(GroupsOf(cmds[Len(cmds)])) = 1

\* the position of the first "@" of an entry, 0 when it has none
AtPos(e) ==
    IF \E i \in 1..Len(e) : e[i] = "@"
    THEN CHOOSE i \in 1..Len(e) : e[i] = "@" /\ \A j \in 1..(i - 1) : e[j] # "@"
    ELSE 0

\* an entry with its "@mode" part removed, and the mode of that part
NamePart(e) == IF AtPos(e) = 0 THEN e ELSE SubSeq(e, 1, AtPos(e) - 1)
ModePart(e) == IF AtPos(e) = 0 THEN <<>> ELSE SubSeq(e, AtPos(e) + 1, Len(e))

\* the enable group the rule's i-th target is to get
ExpectedEnable(t, i) ==
    <<optOutput, NamePart(t[i])>>
    \o (IF ModePart(t[i]) = <<>> THEN <<optAuto>> ELSE <<optMode, ModePart(t[i])>>)
    \o (IF i > 1 THEN <<optRightOf, NamePart(t[i - 1])>> ELSE <<>>)

\* C13: the enable groups emitted are one per target entry, in declaration
\* order: --output <name>, then --auto when the entry names no mode and
\* --mode <mode> when it does, and for every target but the first
\* --right-of <name of the preceding target, its "@mode" part removed>.
C13_EnableGroups ==
    Built =>
        LET t == Targets(rule)
        IN  EnableGroups(cmds) = [i \in 1..Len(t) |-> ExpectedEnable(t, i)]

\* C13 witness: a row whose first entry carries a mode; the second target is
\* placed right of the first one's bare name.
C13_RightOfBareName ==
    /\ Built
    /\ rule.ConfigureSingle = <<>>
    /\ rule.ConfigureRow = <<eVGA1At1024, nLVDS1, nHDMI2>>
    /\ Len(EnableGroups(cmds)) = 3
    /\ EnableGroups(cmds)[1] = <<optOutput, nVGA1, optMode, m1024x768>>
    /\ EnableGroups(cmds)[2] = <<optOutput, nLVDS1, optAuto, optRightOf, nVGA1>>

\* C18: every disable group names an output of the current model that is
\* not a target of the rule (targets taken by name, "@mode" removed), and no
\* name is disabled twice over all descriptors, whatever DisableOrder lists.
C18_DisablesCurrentNonTargetsOnce ==
    Built =>
        LET dn == DisabledNames(cmds)
            t == Targets(rule)
        IN  /\ \A i \in 1..Len(dn) :
                  /\ \E j \in 1..Len(current) : current[j].Name = dn[i]
                  /\ \A j \in 1..Len(t) : NamePart(t[j]) # dn[i]
            /\ \A i, j \in 1..Len(dn) : i # j => dn[i] # dn[j]

\* C18 witness: DisableOrder names DP1 twice and LVDS1, a target present in
\* the current model; DP1 is disabled and VGA1, absent from the list, too.
C18_RepeatedAndTargetInOrder ==
    /\ Built
    /\ rule.DisableOrder = <<nDP1, nLVDS1, nDP1>>
    /\ nLVDS1 \in TargetNames(rule)
    /\ \E j \in 1..Len(current) : current[j].Name = nLVDS1 /\ current[j].Connected
    /\ nDP1 \in Range(DisabledNames(cmds))
    /\ nVGA1 \in Range(DisabledNames(cmds))

\* the descriptor that holds the k-th disable group, the k-th enable group
DescOfDisable(cs, k) ==
    CHOOSE i \in 1..Len(cs) : DisablesBefore(cs, i) < k /\ DisablesBefore(cs, i + 1) >= k

DescOfEnable(cs, k) ==
    CHOOSE i \in 1..Len(cs) : EnablesBefore(cs, i) < k /\ EnablesBefore(cs, i + 1) >= k

\* the descriptors of the rule with the Atomic flag set to a, for the same
\* current outputs and the same order of the unlisted disables
CmdsWithAtomic(a) ==
    BuildCommandOutputRow([rule EXCEPT !.Atomic = a], current, mapOrder).cmds

\* C19: the descriptors of the rule taken as atomic and as not atomic hold
\* the same argument groups: the same sequence of disable groups, the same
\* sequence of enable groups, none lost or added by the split; and in the
\* split the k-th enable is in no earlier descriptor than the k-th disable.
C19_SplitKeepsGroups ==
    Built =>
        LET one == CmdsWithAtomic(TRUE)
            many == CmdsWithAtomic(FALSE)
            d == Len(DisableGroups(many))
            e == Len(EnableGroups(many))
        IN  /\ cmds = IF rule.Atomic THEN one ELSE many
            /\ Len(one) = 1
            /\ DisableGroups(many) = DisableGroups(one)
            /\ EnableGroups(many) = EnableGroups(one)
            /\ Len(AllGroups(many)) = Len(AllGroups(one))
            /\ Len(AllGroups(many)) = d + e
            /\ Flatten(DisableGroups(one)) \o Flatten(EnableGroups(one)) = one[1]
            /\ \A k \in 1..d : k <= e =>
                  DescOfEnable(many, k) >= DescOfDisable(many, k)

\* C19 witness: a split call with at least two disables and two enables.
C19_SplitTwoAndTwo ==
    /\ Built
    /\ ~rule.Atomic
    /\ Len(DisableGroups(cmds)) >= 2
    /\ Len(EnableGroups(cmds)) >= 2
    /\ CmdsWithAtomic(TRUE) # cmds

\* the rule populates both ConfigureSingle and ConfigureRow
BothPopulated(r) == r.ConfigureSingle # <<>> /\ Len(r.ConfigureRow) > 0

\* the names the rule lists in ConfigureRow only
RowOnlyNames(r) ==
    {NamePart(e) : e \in Range(r.ConfigureRow)} \ {NamePart(r.ConfigureSingle)}

\* C20: a rule that populates both ConfigureSingle and ConfigureRow yields
\* no error and has ConfigureSingle as its only target: exactly one enable
\* group, without --right-of, and every output named in ConfigureRow only is
\* disabled if it is connected or carries a mode.
C20_SingleWins ==
    (bpc = "returned" /\ BothPopulated(rule)) =>
        /\ berr = Nil
        /\ EnableGroups(cmds) = <<ExpectedEnable(<<rule.ConfigureSingle>>, 1)>>
        /\ \A g \in Range(AllGroups(cmds)) : optRightOf \notin Range(g)
        /\ \A o \in Range(current) :
              (o.Name \in RowOnlyNames(rule) /\ (o.Connected \/ Len(o.Modes) > 0))
                  => o.Name \in Range(DisabledNames(cmds))

\* C20 witness: with ConfigureSingle DP1@1024x768 and a row of VGA1, LVDS1
\* and HDMI2, the row's HDMI2 (connected) and VGA1 (carrying a mode) are
\* disabled.
C20_RowOutputsDisabled ==
    /\ Built
    /\ rule.ConfigureSingle = eDP1At1024
    /\ rule.ConfigureRow = <<eVGA1At1024, nLVDS1, nHDMI2>>
    /\ Len(EnableGroups(cmds)) = 1
    /\ {nHDMI2, nVGA1} \subseteq Range(DisabledNames(cmds))

---------------------------------------------------------------------------
(* Properties of Present and Connected *)

MalformedPatterns == {pOpenClass, pTrailingEsc, pEmptyClass}

\* C10: Present is true exactly when some output's name matches the pattern,
\* Connected exactly when some output matches and is connected, wherever it
\* stands in the list; "DP2-?" matches DP2-2 and not DP2-20; a malformed
\* pattern makes both false.
C10_PresentConnected ==
    /\ qpc = "present" =>
          /\ qret <=> \E i \in 1..Len(os) : Match(name, os[i].Name).matched
          /\ name = pDP2Any1 => (qret <=> \E i \in 1..Len(os) : os[i].Name = nDP2_2)
    /\ qpc = "connected" =>
          /\ qret <=> \E i \in 1..Len(os) :
                         Match(name, os[i].Name).matched /\ os[i].Connected
          /\ name = pDP2Any1 =>
                (qret <=> \E i \in 1..Len(os) :
                             os[i].Name = nDP2_2 /\ os[i].Connected)
    /\ (qpc \in {"present", "connected"} /\ name \in MalformedPatterns) => ~qret

\* C10 witness: Connected is true by the last output of the list, after an
\* output that matches but is not connected and one that does not match.
C10_ConnectedLater ==
    /\ qpc = "connected"
    /\ qret
    /\ name = pDP2Any1
    /\ Len(os) = 3
    /\ os[1].Name = nDP2_2 /\ ~os[1].Connected
    /\ os[2].Name = nDP2_20 /\ os[2].Connected
    /\ os[3].Name = nDP2_2 /\ os[3].Connected


---------------------------------------------------------------------------
(* Properties of Equals *)

\* the same Name, Connected flag and modes, index by index in Name, Default
\* and Active
SameOutput(o, o2) ==
    /\ o.Name = o2.Name
    /\ o.Connected = o2.Connected
    /\ Len(o.Modes) = Len(o2.Modes)
    /\ \A j \in 1..Len(o.Modes) :
          /\ o.Modes[j].Name = o2.Modes[j].Name
          /\ o.Modes[j].Default = o2.Modes[j].Default
          /\ o.Modes[j].Active = o2.Modes[j].Active

SameOutputs(a, b) ==
    /\ Len(a) = Len(b)
    /\ \A i \in 1..Len(a) : SameOutput(a[i], b[i])

\* b holds the outputs of a in another order
Reordered(a, b) ==
    /\ Len(a) = Len(b)
    /\ \E i, j \in 1..Len(a) :
          /\ i # j
          /\ ~SameOutput(a[i], a[j])
          /\ b = [a EXCEPT ![i] = a[j], ![j] = a[i]]

\* C17: Equals, asked either way round, is true exactly when the two lists
\* have the same length and at every index outputs of the same Name, the
\* same Connected flag and mode lists of the same length equal index by
\* index in Name, Default and Active; so a list equals itself (the result
\* of parsing a report again), the same outputs in another order are not
\* equal, and a nil mode list equals an empty one.
C17_Equals ==
    qpc \in {"equals", "swapped"} =>
        /\ qret = SameOutputs(os, other)
        /\ os = other => qret
        /\ Reordered(os, other) => ~qret
        /\ (/\ Len(os) = Len(other)
            /\ \A i \in 1..Len(os) :
                  /\ os[i].Modes = <<>>
                  /\ other[i] = [os[i] EXCEPT !.NilModes = ~@]) => qret

\* C17 witness: Equals has answered no for two different outputs in the two
\* orders, one with a nil mode list and one with modes.
C17_OrderMatters ==
    /\ qpc = "equals"
    /\ Len(os) = 2
    /\ os[1].NilModes
    /\ Len(os[2].Modes) = 2
    /\ other = <<os[2], os[1]>>
    /\ ~qret
====
